---- MODULE Spec2Model ----
(***************************************************************************)
(* Visit accounting of the "Who Am I" backend (backend/index.js):           *)
(* GET /api/whoami -> incrementVisits -> incrementVisitsRedis or            *)
(* incrementVisitsFile, with the Redis connection events and the           *)
(* visits.json document.                                                    *)
(*                                                                         *)
(* Node runs one JavaScript task at a time: a handler runs until it        *)
(* awaits.  `running` is the request whose synchronous section holds the   *)
(* thread (0 when the event loop is free).  A Redis command is one step:   *)
(* the server applies it atomically and the awaiting call continues.       *)
(***************************************************************************)
EXTENDS Integers, Sequences, FiniteSets, TLC

\* ---------------------------------------------------------------- bounds
NumSlots == 2          \* requests that can be in flight together
MaxCalls == 3          \* requests issued in one run
MaxRestarts == 1       \* times the process is started again
MaxSignals == 2        \* SIGTERM and SIGINT signals sent to the process
MaxConns == 1          \* connections open on the server together
MaxTimes == 45         \* reconnection attempts in a row
MaxKeyCalls == 4       \* incrementVisitsFile calls followed key by key
MaxHeaderLen == 3      \* pieces in an X-Forwarded-For header
FewCalls == 2          \* requests issued in one run, where runs or the
                       \* requests to /api/visits are followed as well

Slots   == 1..NumSlots
Clients == {"1.2.3.4", "5.6.7.8"}

VARIABLES
    redis,        \* a Redis client exists (REDIS_URL was set)
    redisReady,   \* let redisReady
    rTotal,       \* Redis key visits:total (0 = key absent)
    rByIp,        \* Redis hash visits:byIp (0 = field absent)
    file,         \* content of visits.json
    file0,        \* content of visits.json when the process started
    running,      \* request holding the JavaScript thread, or 0
    pc,           \* where each request is
    ip,           \* ip of each request
    visits,       \* incrementVisitsFile: const visits
    v,            \* value incrementVisits resolves with
    eff,          \* what the request has added to each ledger so far
    calls,        \* requests received so far, per client id
    redisCalls,   \* incrementVisitsRedis calls made so far, per client id
    fileFault,    \* some file read or write has failed
    redisFault,   \* some Redis command has failed
    overlap,      \* two requests have been in flight together
    fileWrites,   \* number of writeVisits calls made by increments
    up,           \* the process is running
    restarts,     \* times the process has been started again
    snap,         \* the GET /api/visits request
    maxRet,       \* highest total a request has answered with, per store
    res,          \* responses sent to each request to /api/whoami
    req,          \* a request as the ip resolution sees it
    ipOut,        \* const ip of that request
    kdoc,         \* visits.json as a JavaScript object
    kres,         \* what the last incrementVisitsFile returned
    kcalls,       \* incrementVisitsFile calls so far, per key
    klast,        \* key of the last incrementVisitsFile call
    lastEvent,    \* last event the Redis client emitted to the handlers
    times,        \* reconnection attempts since the connection was lost
    delay,        \* what retryStrategy returned for the last attempt
    link,         \* the connection to the Redis server is established
    own,          \* replies to the INCR and HINCRBY of each request
    srv,          \* const s: where the server of startServer is
    port,         \* tryListen(port)
    attempts,     \* let attempts
    tried,        \* ports app.listen was called with, in order
    handlers,     \* times shutdown was registered for SIGTERM and SIGINT
    timer,        \* the 5 s timer of shutdown is set
    conns,        \* connections open on the server
    sigs,         \* SIGTERM and SIGINT signals received
    exit,         \* how the process has ended
    copy,         \* which copy of the frontend script the page runs
    loc,          \* location of the page
    candidates,   \* const candidates
    pos,          \* place in candidates of the url of the for loop
    step,         \* where tryFetchCandidates is
    fetched,      \* urls passed to fetch, in order
    errs,         \* errors caught, in order
    lastErr,      \* let lastErr
    ret           \* what tryFetchCandidates returned or threw

\* the process and its requests to /api/whoami
coreVars == <<redis, redisReady, rTotal, rByIp, file, file0, running, pc, ip,
              visits, v, eff, calls, redisCalls, fileFault, redisFault,
              overlap, fileWrites>>

\* the life of the process and its requests to /api/visits
lifeVars == <<up, restarts, snap, maxRet>>

\* what the handlers do around the accounting
ipVars == <<req, ipOut>>
keyVars == <<kdoc, kres, kcalls, klast>>
connVars == <<lastEvent, times, delay>>
bootVars == <<srv, port, attempts, tried, handlers, timer, conns, sigs, exit>>
webVars == <<copy, loc, candidates, pos, step, fetched, errs, lastErr, ret>>
edgeVars == <<ipVars, keyVars, connVars, link, own, bootVars, webVars>>

restVars == <<lifeVars, res, edgeVars>>

vars == <<coreVars, restVars>>

\* ------------------------------------------------------------ documents
NoKeys == [c \in Clients |-> 0]

\* { total: 0, byIp: {} }
EmptyLedger == [kind |-> "ledger", total |-> 0, byIp |-> NoKeys]

\* a visits.json that does not exist
MissingFile == [kind |-> "missing", total |-> 0, byIp |-> NoKeys]

\* a visits.json whose content JSON.parse rejects (truncated, empty, ...)
GarbageFile == [kind |-> "garbage", total |-> 0, byIp |-> NoKeys]

\* a visits.json holding the JSON text null
NullFile == [kind |-> "null", total |-> 0, byIp |-> NoKeys]

RECURSIVE SumOver(_, _)
SumOver(f, S) ==
    IF S = {} THEN 0
    ELSE LET c == CHOOSE x \in S : TRUE IN f[c] + SumOver(f, S \ {c})

\* Object.keys(byIp)
Keys(byIp) == {c \in Clients : byIp[c] > 0}

\* readVisits(): the parsed document, or the empty ledger when reading or
\* parsing throws.  readOk = FALSE is fs.readFileSync throwing on a file
\* that exists (EACCES, EMFILE, EIO).
readVisitsNoCatch(readOk) == file
readVisits(readOk) ==
    IF readOk /\ file.kind \in {"ledger", "null"} THEN file ELSE EmptyLedger

\* writeVisits(data): "ok" replaces the document; "fail" is writeFileSync
\* throwing before the file was opened for writing; "trunc" is writeFileSync
\* throwing after the file was truncated (ENOSPC, EIO).  The error is caught.
WriteOutcomes == {"ok", "fail", "trunc"}
writeVisits(data, out) ==
    CASE out = "ok"    -> data
      [] out = "fail"  -> file
      [] out = "trunc" -> GarbageFile

\* visits.total = (visits.total || 0) + 1;
\* visits.byIp[ip] = (visits.byIp[ip] || 0) + 1
BumpTotalOnly(doc, c) == [doc EXCEPT !.total = @ + 1]
Bump(doc, c) == [doc EXCEPT !.total = @ + 1, !.byIp[c] = @ + 1]

\* { total, unique: Object.keys(visits.byIp).length, yourVisits }
FileResult(doc, c) ==
    [total |-> doc.total, unique |-> Cardinality(Keys(doc.byIp)),
     yourVisits |-> doc.byIp[c]]

\* ----------------------------------------------------------- Redis replies
\* INCR key / HINCRBY key field 1
Incr(n) == n + 1
HSetOne(h, c) == [h EXCEPT ![c] = 1]
HIncrBy(h, c) == [h EXCEPT ![c] = @ + 1]

\* GET and HGET answer nil for an absent key or field, else the number as text
Nil == [nil |-> TRUE, val |-> 0]
ReplyAbsent(n) == Nil
Reply(n) == IF n = 0 THEN Nil ELSE [nil |-> FALSE, val |-> n]

\* Number(x || 0)
NumberOr0(r) == IF r.nil THEN 0 ELSE r.val

\* ---------------------------------------------------------------- ghosts
\* store: the store whose values the request returned ("" while undecided);
\* fellBack: a Redis command of the request failed; saved: its writeVisits
\* replaced the document; incr, hincr: the replies to its INCR and HINCRBY
NoEff == [store |-> "", rTotal |-> 0, rMine |-> 0, fTotal |-> 0, fMine |-> 0,
          fellBack |-> FALSE, saved |-> FALSE]

\* no INCR and no HINCRBY of the request answered yet
NoOwn == [incr |-> 0, hincr |-> 0]
NoIp == "-"      \* ip of a slot that holds no request
NoV == [total |-> 0, unique |-> 0, yourVisits |-> 0]

\* GET /api/visits: pc is where the handler is, store the branch it took,
\* floor the highest total answered from that store before it started
NoSnap == [pc |-> "idle", store |-> "", floor |-> 0, status |-> 0,
           total |-> 0, unique |-> 0]
NoneReturned == [file |-> 0, redis |-> 0]

\* no response sent yet
NoRes == [sent |-> 0, status |-> 0, fields |-> {}, ip |-> NoIp, visits |-> NoV]

\* ------------------------------------------ byIp as a JavaScript object
\* keys: the empty string, an address, and two names Object.prototype has
KeyIds == {"", "1.2.3.4", "__proto__", "constructor"}

\* values: a number, a string made by + on something that is not a number,
\* an object or function of the language, undefined (no such property)
Num(n) == [t |-> "number", n |-> n]
Text == [t |-> "string", n |-> 0]
Builtin == [t |-> "object", n |-> 0]
Undefined == [t |-> "undefined", n |-> 0]

\* what a plain object inherits under key k
Inherited(k) == IF k \in {"__proto__", "constructor"} THEN Builtin ELSE Undefined

\* visits.byIp[ip]: the own property, else the inherited one
GetProp(obj, k) == IF obj[k] # Undefined THEN obj[k] ELSE Inherited(k)

\* x || 0
OrZero(x) ==
    IF x.t \in {"object", "string"} \/ (x.t = "number" /\ x.n # 0)
      THEN x
      ELSE Num(0)

\* x + 1: a sum for a number, a string otherwise
PlusOne(x) == IF x.t = "number" THEN Num(x.n + 1) ELSE Text

\* visits.byIp[ip] = val, val a number or a string: an own property is set,
\* except under __proto__, whose setter ignores such a value
SetPropUnlessEmpty(obj, k, val) ==
    IF k \in {"__proto__", ""} THEN obj ELSE [obj EXCEPT ![k] = val]
SetProp(obj, k, val) ==
    IF k = "__proto__" THEN obj ELSE [obj EXCEPT ![k] = val]

\* Object.keys(byIp)
OwnKeys(obj) == {k \in KeyIds : obj[k] # Undefined}

\* ------------------------------------------------- ip of a request
\* A header or an address is a sequence of pieces of text; the pieces are
\* the ones the resolution treats differently, and two plain addresses.
Tokens == {",", " ", "::ffff:", "::1", "[::1]", "0:0:0:0:0:0:0:1",
           "1.2.3.4", "5.6.7.8"}

\* values of the X-Forwarded-For header; <<>> is no header (or an empty one)
Headers == UNION {[1..n -> Tokens] : n \in 0..MaxHeaderLen}

\* values of req.clientIp || requestIp.getClientIp(req) || ... || ''
Peers == {<<>>, <<"1.2.3.4">>, <<"::ffff:", "1.2.3.4">>, <<"::1">>,
          <<"0:0:0:0:0:0:0:1">>}

NoReq == [seen |-> FALSE, header |-> <<>>, peer |-> <<>>, trust |-> FALSE]

\* String(rawForward).split(',')[0]
RECURSIVE SplitFirst(_)
SplitFirst(h) ==
    IF h = <<>> \/ Head(h) = "," THEN <<>>
    ELSE <<Head(h)>> \o SplitFirst(Tail(h))

\* .trim()
RECURSIVE TrimStart(_)
TrimStart(t) ==
    IF t # <<>> /\ Head(t) = " " THEN TrimStart(Tail(t)) ELSE t
RECURSIVE TrimEnd(_)
TrimEnd(t) ==
    IF t # <<>> /\ t[Len(t)] = " " THEN TrimEnd(SubSeq(t, 1, Len(t) - 1)) ELSE t
TrimStartOnly(t) == TrimStart(t)
Trim(t) == TrimEnd(TrimStart(t))

\* if (rawForward) ipRaw = ...split(',')[0].trim(); else ipRaw = (...) + ''
IpRaw(header, peer) ==
    IF header # <<>> THEN Trim(SplitFirst(header)) ELSE peer

\* .replace(/^::ffff:/, '')
StripMapped(t) ==
    IF t # <<>> /\ Head(t) = "::ffff:" THEN Tail(t) ELSE t

\* .replace(/^\[::1\]$|^::1$/, '127.0.0.1')
ReplaceLoopback(t) ==
    IF t \in {<<"[::1]">>, <<"::1">>} THEN <<"127.0.0.1">> ELSE t

\* if (ip === '::1' || ip === '0:0:0:0:0:0:0:1') ip = '127.0.0.1'
IfLoopback(t) ==
    IF t \in {<<"::1">>, <<"0:0:0:0:0:0:0:1">>} THEN <<"127.0.0.1">> ELSE t

\* const ip: the X-Forwarded-For header is read whatever 'trust proxy' is
ResolveIp(header, peer) ==
    IfLoopback(ReplaceLoopback(StripMapped(IpRaw(header, peer))))

\* requests received so far
NumCalls == SumOver(calls, Clients)

\* the persisted total and per-client count as a reader would take them
Persisted(doc) == IF doc.kind = "ledger" THEN doc ELSE EmptyLedger

\* the process has not ended
Running == [code |-> "none", by |-> "none"]

\* no page loaded; let lastErr = null; tryFetchCandidates not settled
NoLoc == [protocol |-> "", port |-> ""]
Null == [kind |-> "null", url |-> ""]
NoAttempted == [set |-> FALSE, list |-> <<>>]
NoRet == [kind |-> "none", url |-> "", data |-> "", err |-> Null,
          attempted |-> NoAttempted]

\* ------------------------------------------------------------------ Init
InitFiles == {EmptyLedger, MissingFile, GarbageFile, NullFile}

Init ==
    /\ redis \in BOOLEAN
    /\ redisReady = FALSE
    /\ rTotal = 0
    /\ rByIp = NoKeys
    /\ file \in InitFiles
    /\ file0 = file
    /\ running = 0
    /\ pc = [s \in Slots |-> "idle"]
    /\ ip = [s \in Slots |-> NoIp]
    /\ visits = [s \in Slots |-> EmptyLedger]
    /\ v = [s \in Slots |-> NoV]
    /\ eff = [s \in Slots |-> NoEff]
    /\ calls = NoKeys
    /\ redisCalls = NoKeys
    /\ fileFault = FALSE
    /\ redisFault = FALSE
    /\ overlap = FALSE
    /\ fileWrites = 0
    /\ up = TRUE
    /\ restarts = 0
    /\ snap = NoSnap
    /\ maxRet = NoneReturned
    /\ res = [s \in Slots |-> NoRes]
    /\ req = NoReq
    /\ ipOut = <<>>
    /\ kdoc = [total |-> 0, byIp |-> [k \in KeyIds |-> Undefined]]
    /\ kres = [total |-> 0, unique |-> 0, yourVisits |-> Undefined]
    /\ kcalls = [k \in KeyIds |-> 0]
    /\ klast = ""
    /\ lastEvent = "none"
    /\ times = 0
    /\ delay = 0
    /\ link = FALSE
    /\ own = [s \in Slots |-> NoOwn]
    /\ srv = "none"
    /\ port = 0
    /\ attempts = 0
    /\ tried = <<>>
    /\ handlers = 0
    /\ timer = FALSE
    /\ conns = 0
    /\ sigs = 0
    /\ exit = Running
    /\ copy = "none"
    /\ loc = NoLoc
    /\ candidates = <<>>
    /\ pos = 0
    /\ step = "none"
    /\ fetched = <<>>
    /\ errs = <<>>
    /\ lastErr = Null
    /\ ret = NoRet

\* ------------------------------------------------------------ scheduling
\* A step of request s can run when no other request holds the thread.
JsFree(s) == running \in {0, s}

\* incrementVisitsFile has no await: from its call to its return the request
\* keeps the thread.
YieldThread(s) == 0
HoldThread(s) == s

\* incrementVisitsFile(ip) is entered: synchronously from incrementVisits, or
\* from its catch block after a Redis command rejected.
EnterFile(s) ==
    /\ pc' = [pc EXCEPT ![s] = "fileRead"]
    /\ running' = HoldThread(s)

\* -------------------------------------------------------- GET /api/whoami
\* if (redis && redisReady)
UseRedisIfConfigured == redis
UseRedis == redis /\ redisReady

\* The handler up to `await incrementVisits(ip)`, and incrementVisits up to
\* its first await: if (redis && redisReady) the INCR is sent, otherwise
\* incrementVisitsFile is entered.
Whoami(s, c) ==
    /\ pc[s] = "idle"
    /\ \A t \in Slots : t < s => pc[t] # "idle"
    /\ running = 0
    /\ NumCalls < MaxCalls
    /\ calls' = [calls EXCEPT ![c] = @ + 1]
    /\ ip' = [ip EXCEPT ![s] = c]
    /\ visits' = [visits EXCEPT ![s] = EmptyLedger]
    /\ v' = [v EXCEPT ![s] = NoV]
    /\ eff' = [eff EXCEPT ![s] = NoEff]
    /\ overlap' = (overlap \/ \E t \in Slots \ {s} : pc[t] # "idle")
    /\ IF UseRedis
         THEN /\ pc' = [pc EXCEPT ![s] = "incr"]
              /\ redisCalls' = [redisCalls EXCEPT ![c] = @ + 1]
              /\ UNCHANGED running
         ELSE /\ EnterFile(s)
              /\ UNCHANGED redisCalls
    /\ UNCHANGED <<redis, redisReady, rTotal, rByIp, file, file0, fileFault,
                   redisFault, fileWrites>>

\* A Redis command of request s was answered with an error: the await throws,
\* incrementVisits catches it and falls back to incrementVisitsFile.
RedisCommandFails(s) ==
    /\ redisFault' = TRUE
    /\ EnterFile(s)
    /\ eff' = [eff EXCEPT ![s].fellBack = TRUE]
    /\ UNCHANGED <<rTotal, rByIp, v>>

\* await redis.incr('visits:total')
RedisIncr(s, ok) ==
    /\ pc[s] = "incr"
    /\ running = 0
    /\ IF ok
         THEN /\ rTotal' = Incr(rTotal)
              /\ eff' = [eff EXCEPT ![s].rTotal = @ + 1]
              /\ pc' = [pc EXCEPT ![s] = "hincrby"]
              /\ UNCHANGED <<rByIp, v, running, redisFault>>
         ELSE RedisCommandFails(s)
    /\ UNCHANGED <<redis, redisReady, file, file0, ip, visits, calls,
                   redisCalls, fileFault, overlap, fileWrites>>

\* await redis.hincrby('visits:byIp', ip, 1)
RedisHincrby(s, ok) ==
    /\ pc[s] = "hincrby"
    /\ running = 0
    /\ IF ok
         THEN /\ rByIp' = HIncrBy(rByIp, ip[s])
              /\ eff' = [eff EXCEPT ![s].rMine = @ + 1]
              /\ pc' = [pc EXCEPT ![s] = "get"]
              /\ UNCHANGED <<rTotal, v, running, redisFault>>
         ELSE RedisCommandFails(s)
    /\ UNCHANGED <<redis, redisReady, file, file0, ip, visits, calls,
                   redisCalls, fileFault, overlap, fileWrites>>

\* Promise.all([...]): redis.get('visits:total'), total: Number(total || 0)
RedisGet(s, ok) ==
    /\ pc[s] = "get"
    /\ running = 0
    /\ IF ok
         THEN /\ v' = [v EXCEPT ![s].total = NumberOr0(Reply(rTotal))]
              /\ pc' = [pc EXCEPT ![s] = "hlen"]
              /\ UNCHANGED <<rTotal, rByIp, eff, running, redisFault>>
         ELSE RedisCommandFails(s)
    /\ UNCHANGED <<redis, redisReady, file, file0, ip, visits, calls,
                   redisCalls, fileFault, overlap, fileWrites>>

\* Promise.all([...]): redis.hlen('visits:byIp'), unique: Number(unique || 0)
RedisHlen(s, ok) ==
    /\ pc[s] = "hlen"
    /\ running = 0
    /\ IF ok
         THEN /\ v' = [v EXCEPT ![s].unique = Cardinality(Keys(rByIp))]
              /\ pc' = [pc EXCEPT ![s] = "hget"]
              /\ UNCHANGED <<rTotal, rByIp, eff, running, redisFault>>
         ELSE RedisCommandFails(s)
    /\ UNCHANGED <<redis, redisReady, file, file0, ip, visits, calls,
                   redisCalls, fileFault, overlap, fileWrites>>

\* Promise.all([...]): redis.hget('visits:byIp', ip), then the return
RedisHget(s, ok) ==
    /\ pc[s] = "hget"
    /\ running = 0
    /\ IF ok
         THEN /\ v' = [v EXCEPT
                         ![s].yourVisits = NumberOr0(Reply(rByIp[ip[s]]))]
              /\ eff' = [eff EXCEPT ![s].store = "redis"]
              /\ pc' = [pc EXCEPT ![s] = "resolved"]
              /\ UNCHANGED <<rTotal, rByIp, running, redisFault>>
         ELSE RedisCommandFails(s)
    /\ UNCHANGED <<redis, redisReady, file, file0, ip, visits, calls,
                   redisCalls, fileFault, overlap, fileWrites>>

\* incrementVisitsFile: const visits = readVisits(); a document that parsed
\* to null makes `visits.total` throw a TypeError out of incrementVisits.
FileRead(s, readOk) ==
    /\ pc[s] = "fileRead"
    /\ JsFree(s)
    /\ readOk \/ file.kind \in {"ledger", "null"}
    /\ LET doc == readVisits(readOk) IN
         IF doc.kind = "null"
           THEN /\ pc' = [pc EXCEPT ![s] = "rejected"]
                /\ running' = 0
                /\ UNCHANGED visits
           ELSE /\ pc' = [pc EXCEPT ![s] = "fileWrite"]
                /\ running' = HoldThread(s)
                /\ visits' = [visits EXCEPT ![s] = doc]
    /\ fileFault' = (fileFault \/ ~readOk)
    /\ UNCHANGED <<redis, redisReady, rTotal, rByIp, file, file0, ip, v, eff,
                   calls, redisCalls, redisFault, overlap, fileWrites>>

\* incrementVisitsFile: both fields are incremented in memory, writeVisits
\* rewrites the document, and the in-memory values are returned.
FileWrite(s, out) ==
    /\ pc[s] = "fileWrite"
    /\ JsFree(s)
    /\ LET doc == Bump(visits[s], ip[s]) IN
         /\ visits' = [visits EXCEPT ![s] = EmptyLedger]
         /\ file' = writeVisits(doc, out)
         /\ v' = [v EXCEPT ![s] = FileResult(doc, ip[s])]
         /\ eff' = [eff EXCEPT
                ![s].store = "file",
                ![s].saved = (out = "ok"),
                ![s].fTotal = Persisted(file').total - Persisted(file).total,
                ![s].fMine = Persisted(file').byIp[ip[s]]
                               - Persisted(file).byIp[ip[s]]]
    /\ pc' = [pc EXCEPT ![s] = "resolved"]
    /\ running' = 0
    /\ fileFault' = (fileFault \/ out # "ok")
    /\ fileWrites' = fileWrites + 1
    /\ UNCHANGED <<file0, redis, redisReady, rTotal, rByIp, ip, calls,
                   redisCalls, redisFault, overlap>>

\* The handler after the await: res.json({... visits ...}) when
\* incrementVisits resolved, res.status(500).json({error}) when it rejected.
Respond(s) ==
    /\ pc[s] \in {"resolved", "rejected"}
    /\ running = 0
    /\ pc' = [pc EXCEPT ![s] = "idle"]
    /\ ip' = [ip EXCEPT ![s] = NoIp]
    /\ v' = [v EXCEPT ![s] = NoV]
    /\ eff' = [eff EXCEPT ![s] = NoEff]
    /\ UNCHANGED <<redis, redisReady, rTotal, rByIp, file, file0, running,
                   visits, calls, redisCalls, fileFault, redisFault, overlap,
                   fileWrites>>

\* ------------------------------------------------- Redis connection events
\* redis.on('ready', () => { redisReady = true })
OnReady ==
    /\ redis
    /\ running = 0
    /\ redisReady' = TRUE
    /\ UNCHANGED <<redis, rTotal, rByIp, file, file0, running, pc, ip, visits,
                   v, eff, calls, redisCalls, fileFault, redisFault, overlap,
                   fileWrites>>

\* redis.on('error', () => { redisReady = false })
OnError ==
    /\ redis
    /\ running = 0
    /\ redisReady' = FALSE
    /\ UNCHANGED <<redis, rTotal, rByIp, file, file0, running, pc, ip, visits,
                   v, eff, calls, redisCalls, fileFault, redisFault, overlap,
                   fileWrites>>

\* redis.on('end', () => { redisReady = false })
OnEndIgnored ==
    /\ redis
    /\ running = 0
    /\ UNCHANGED coreVars
OnEnd ==
    /\ redis
    /\ running = 0
    /\ redisReady' = FALSE
    /\ UNCHANGED <<redis, rTotal, rByIp, file, file0, running, pc, ip, visits,
                   v, eff, calls, redisCalls, fileFault, redisFault, overlap,
                   fileWrites>>

\* The requests to /api/whoami of one run of the process.
\* The handler treats every client id alike, so the first request of a run
\* is taken to come from the first of them.
FirstCall(c) == NumCalls = 0 => c = "1.2.3.4"

Next ==
    \/ \E s \in Slots, c \in Clients :
          FirstCall(c) /\ Whoami(s, c) /\ UNCHANGED restVars
    \/ \E s \in Slots, ok \in BOOLEAN : RedisIncr(s, ok) /\ UNCHANGED restVars
    \/ \E s \in Slots, ok \in BOOLEAN : RedisHincrby(s, ok) /\ UNCHANGED restVars
    \/ \E s \in Slots, ok \in BOOLEAN : RedisGet(s, ok) /\ UNCHANGED restVars
    \/ \E s \in Slots, ok \in BOOLEAN : RedisHlen(s, ok) /\ UNCHANGED restVars
    \/ \E s \in Slots, ok \in BOOLEAN : RedisHget(s, ok) /\ UNCHANGED restVars
    \/ \E s \in Slots, readOk \in BOOLEAN : FileRead(s, readOk) /\ UNCHANGED restVars
    \/ \E s \in Slots, out \in WriteOutcomes : FileWrite(s, out) /\ UNCHANGED restVars
    \/ \E s \in Slots : Respond(s) /\ UNCHANGED restVars
    \/ OnReady /\ UNCHANGED restVars
    \/ OnError /\ UNCHANGED restVars
    \/ OnEnd /\ UNCHANGED restVars

Spec == Init /\ [][Next]_vars

\* =================================================================== claims
Sequential == ~overlap
Resolved(s) == pc[s] = "resolved"
Finished(s) == pc[s] \in {"resolved", "rejected"}
RedisPcs == {"incr", "hincrby", "get", "hlen", "hget"}
FilePcs == {"fileRead", "fileWrite"}
Quiescent == \A s \in Slots : pc[s] = "idle"
Consistent(doc) == doc.kind = "ledger" => doc.total = SumOver(doc.byIp, Clients)

\* C1 (as claimed): failover loses no increment.  With a visits.json that
\* started as the empty ledger and no file read or write failing, the M-th of
\* M sequential calls, when the file fallback serves it, returns total = M,
\* whichever store served the calls before it.
C1_FailoverKeepsCount ==
    \A s \in Slots :
        (/\ Resolved(s) /\ eff[s].store = "file"
         /\ Sequential /\ ~fileFault /\ file0 = EmptyLedger)
            => v[s].total = NumCalls

\* C2 (as claimed): incrementVisits never rejects, whatever Redis answers and
\* whatever visits.json holds.
C2_NeverRaises == \A s \in Slots : pc[s] # "rejected"

C4_FileTotalIsN ==
    \A s \in Slots :
        (Resolved(s) /\ Sequential /\ ~redis /\ file0 = EmptyLedger)
            => v[s].total = NumCalls

\* C5 (as claimed): the k-th sequential call made with client id c returns
\* yourVisits = k, whichever store served each call (no file fault, ledger
\* initially empty).
C5_PerClientAccuracy ==
    \A s \in Slots :
        (Resolved(s) /\ Sequential /\ ~fileFault /\ file0 = EmptyLedger)
            => v[s].yourVisits = calls[ip[s]]

\* C6 (as claimed): every call returns unique = the number of distinct client
\* ids passed so far (sequential calls, no file fault, ledger initially
\* empty).
C6_UniqueCount ==
    \A s \in Slots :
        (Resolved(s) /\ Sequential /\ ~fileFault /\ file0 = EmptyLedger)
            => v[s].unique = Cardinality(Keys(calls))

\* C7 (as claimed): a finished call has added exactly 1 to total and exactly 1
\* to its client's counter, the two stores taken together (no file fault,
\* ledger initially empty).
C7_ExactlyOnce ==
    \A s \in Slots :
        (Finished(s) /\ ~fileFault /\ file0 = EmptyLedger)
            => /\ eff[s].rTotal + eff[s].fTotal = 1
               /\ eff[s].rMine + eff[s].fMine = 1

\* C8 (as claimed): a finished call has incremented a store's total counter
\* exactly when it has incremented its client's counter in that store (no
\* file fault, ledger initially empty).
C8_NoPartialIncrement ==
    \A s \in Slots :
        (Finished(s) /\ ~fileFault /\ file0 = EmptyLedger)
            => /\ eff[s].rTotal = eff[s].rMine
               /\ eff[s].fTotal = eff[s].fMine

\* C9: when no Redis command has failed and no incrementVisitsRedis call is
\* in flight, visits:total has grown by the number of incrementVisitsRedis
\* calls and each visits:byIp field by the number of calls for that client.
C9_RedisCountsEveryCall ==
    (~redisFault /\ \A s \in Slots : pc[s] \notin RedisPcs)
        => /\ rTotal = SumOver(redisCalls, Clients)
           /\ rByIp = redisCalls

\* C9 witness: every call went to Redis, calls were in flight together, one
\* client made two of them, and all have completed.
C9_Witness ==
    /\ Quiescent
    /\ ~redisFault
    /\ overlap
    /\ redisCalls = calls
    /\ \E c \in Clients : redisCalls[c] >= 2 /\ rByIp[c] >= 2

\* C10: while a request is inside incrementVisitsFile (before its read, or
\* between its read and its write-back) no other request is, and with no
\* failed read or write the persisted total is the number of write-backs
\* made.
C10_FileIncrementsExclusive ==
    /\ \A s, t \in Slots :
           (s # t /\ pc[s] \in FilePcs) => pc[t] \notin FilePcs
    /\ ~fileFault => Persisted(file).total = fileWrites

\* C10 witness: a request is between its read and its write-back while
\* another request is in flight, after an earlier write-back.
C10_Witness ==
    /\ ~fileFault
    /\ fileWrites >= 1
    /\ \E s, t \in Slots : s # t /\ pc[s] = "fileWrite" /\ pc[t] \in RedisPcs


\* ============================================== /api/visits and restarts
Max(a, b) == IF a >= b THEN a ELSE b

\* GET /api/visits up to its first await: if (redis && redisReady) the GET is
\* sent; otherwise readVisits() and the response, in one synchronous run.
\* A document holding null makes visits.total throw: the catch answers 500.
VisitsStart(readOk) ==
    /\ up
    /\ running = 0
    /\ snap.pc = "idle"
    /\ IF UseRedis
         THEN /\ snap' = [NoSnap EXCEPT !.pc = "get", !.store = "redis",
                                        !.floor = maxRet.redis]
              /\ UNCHANGED fileFault
         ELSE /\ readOk \/ file.kind \in {"ledger", "null"}
              /\ LET doc == readVisits(readOk) IN
                   snap' = IF doc.kind = "null"
                             THEN [NoSnap EXCEPT !.pc = "done", !.store = "file",
                                                 !.floor = maxRet.file,
                                                 !.status = 500]
                             ELSE [pc |-> "done", store |-> "file",
                                   floor |-> maxRet.file, status |-> 200,
                                   total |-> doc.total,
                                   unique |-> Cardinality(Keys(doc.byIp))]
              /\ fileFault' = (fileFault \/ ~readOk)
    /\ UNCHANGED <<redis, redisReady, rTotal, rByIp, file, file0, running, pc,
                   ip, visits, v, eff, calls, redisCalls, redisFault, overlap,
                   fileWrites, up, restarts, maxRet>>

\* const total = Number(await redis.get('visits:total') || 0)
VisitsGetIncr(ok) ==
    /\ up
    /\ running = 0
    /\ snap.pc = "get"
    /\ rTotal' = Incr(rTotal)
    /\ snap' = IF ok
                 THEN [snap EXCEPT !.pc = "hlen", !.total = Incr(rTotal)]
                 ELSE [snap EXCEPT !.pc = "done", !.status = 500]
    /\ redisFault' = (redisFault \/ ~ok)
    /\ UNCHANGED <<redis, redisReady, rByIp, file, file0, running, pc,
                   ip, visits, v, eff, calls, redisCalls, fileFault, overlap,
                   fileWrites, up, restarts, maxRet>>
VisitsGet(ok) ==
    /\ up
    /\ running = 0
    /\ snap.pc = "get"
    /\ snap' = IF ok
                 THEN [snap EXCEPT !.pc = "hlen",
                                   !.total = NumberOr0(Reply(rTotal))]
                 ELSE [snap EXCEPT !.pc = "done", !.status = 500]
    /\ redisFault' = (redisFault \/ ~ok)
    /\ UNCHANGED <<redis, redisReady, rTotal, rByIp, file, file0, running, pc,
                   ip, visits, v, eff, calls, redisCalls, fileFault, overlap,
                   fileWrites, up, restarts, maxRet>>

\* const unique = Number(await redis.hlen('visits:byIp') || 0);
\* return res.json({ total, unique })
VisitsHlen(ok) ==
    /\ up
    /\ running = 0
    /\ snap.pc = "hlen"
    /\ snap' = IF ok
                 THEN [snap EXCEPT !.pc = "done", !.status = 200,
                                   !.unique = Cardinality(Keys(rByIp))]
                 ELSE [snap EXCEPT !.pc = "done", !.status = 500,
                                   !.total = 0]
    /\ redisFault' = (redisFault \/ ~ok)
    /\ UNCHANGED <<redis, redisReady, rTotal, rByIp, file, file0, running, pc,
                   ip, visits, v, eff, calls, redisCalls, fileFault, overlap,
                   fileWrites, up, restarts, maxRet>>

\* the response of GET /api/visits has been sent
VisitsDone ==
    /\ up
    /\ running = 0
    /\ snap.pc = "done"
    /\ snap' = NoSnap
    /\ UNCHANGED <<coreVars, up, restarts, maxRet>>

\* res.json({ ip, browser, os, device, location, visits: {...} }) after
\* incrementVisits resolved; res.status(500).json({ error }) after it threw
ResponseAlways200(s) ==
    [sent |-> res[s].sent + 1, status |-> 200,
     fields |-> {"ip", "browser", "os", "device", "location", "visits"},
     ip |-> ip[s], visits |-> v[s]]
Response(s) ==
    IF pc[s] = "resolved"
      THEN [sent |-> res[s].sent + 1, status |-> 200,
            fields |-> {"ip", "browser", "os", "device", "location", "visits"},
            ip |-> ip[s], visits |-> v[s]]
      ELSE [sent |-> res[s].sent + 1, status |-> 500, fields |-> {"error"},
            ip |-> NoIp, visits |-> NoV]

\* the response of GET /api/whoami has been sent: a 200 carries v.total
RespondSeen(s) ==
    /\ up
    /\ Respond(s)
    /\ res' = [res EXCEPT ![s] = Response(s)]
    /\ maxRet' = IF pc[s] = "resolved"
                   THEN [maxRet EXCEPT ![eff[s].store] = Max(@, v[s].total)]
                   ELSE maxRet
    /\ UNCHANGED <<up, restarts, snap>>

\* What is in the memory of the process is gone with it; Redis and
\* visits.json stay.
ProcessGone ==
    /\ up' = FALSE
    /\ redisReady' = FALSE
    /\ running' = 0
    /\ pc' = [s \in Slots |-> "idle"]
    /\ ip' = [s \in Slots |-> NoIp]
    /\ visits' = [s \in Slots |-> EmptyLedger]
    /\ v' = [s \in Slots |-> NoV]
    /\ eff' = [s \in Slots |-> NoEff]
    /\ calls' = NoKeys
    /\ fileFault' = FALSE
    /\ overlap' = FALSE
    /\ fileWrites' = 0
    /\ snap' = NoSnap
    /\ maxRet' = NoneReturned
    /\ UNCHANGED <<redis, rTotal, rByIp, redisCalls, redisFault, file0,
                   restarts>>

\* process.exit between two tasks (shutdown, or the process being killed)
Stop ==
    /\ up
    /\ running = 0
    /\ restarts < MaxRestarts
    /\ ProcessGone
    /\ UNCHANGED file

\* The process dies inside fs.writeFileSync(VISITS_FILE, ...) of request s:
\* before the file was opened ("fail"), after it was truncated and before
\* the text was all written ("trunc"), or after the write ("ok").
CrashInWrite(s, out) ==
    /\ up
    /\ pc[s] = "fileWrite"
    /\ running = s
    /\ restarts < MaxRestarts
    /\ file' = writeVisits(Bump(visits[s], ip[s]), out)
    /\ ProcessGone

\* if (!fs.existsSync(VISITS_FILE)) writeVisits({ total: 0, byIp: {} })
EnsureFileAlways(doc, out) == writeVisits(EmptyLedger, out)
EnsureFile(doc, out) ==
    IF doc.kind = "missing" THEN writeVisits(EmptyLedger, out) ELSE doc

\* The module is loaded again: redisReady is false, the file is ensured.
Start(out) ==
    /\ ~up
    /\ up' = TRUE
    /\ restarts' = restarts + 1
    /\ file' = EnsureFile(file, out)
    /\ file0' = file'
    /\ fileFault' = (file.kind = "missing" /\ out # "ok")
    /\ UNCHANGED <<redis, redisReady, rTotal, rByIp, running, pc, ip, visits,
                   v, eff, calls, redisCalls, redisFault, overlap, fileWrites,
                   snap, maxRet>>

\* One request to /api/whoami at a time, and requests to /api/visits beside
\* it, in one run of the process.
SnapNext ==
    \/ \E s \in Slots, c \in Clients :
          /\ Quiescent
          /\ NumCalls < FewCalls
          /\ Whoami(s, c)
          /\ res' = [res EXCEPT ![s] = NoRes]
          /\ UNCHANGED <<lifeVars, edgeVars>>
    \/ \E s \in Slots, ok \in BOOLEAN : RedisIncr(s, ok) /\ UNCHANGED restVars
    \/ \E s \in Slots, ok \in BOOLEAN : RedisHincrby(s, ok) /\ UNCHANGED restVars
    \/ \E s \in Slots, ok \in BOOLEAN : RedisGet(s, ok) /\ UNCHANGED restVars
    \/ \E s \in Slots, ok \in BOOLEAN : RedisHlen(s, ok) /\ UNCHANGED restVars
    \/ \E s \in Slots, ok \in BOOLEAN : RedisHget(s, ok) /\ UNCHANGED restVars
    \/ \E s \in Slots, readOk \in BOOLEAN : FileRead(s, readOk) /\ UNCHANGED restVars
    \/ \E s \in Slots, out \in WriteOutcomes : FileWrite(s, out) /\ UNCHANGED restVars
    \/ \E s \in Slots : RespondSeen(s) /\ UNCHANGED edgeVars
    \/ OnReady /\ UNCHANGED restVars
    \/ OnError /\ UNCHANGED restVars
    \/ OnEnd /\ UNCHANGED restVars
    \/ \E readOk \in BOOLEAN : VisitsStart(readOk) /\ UNCHANGED <<res, edgeVars>>
    \/ \E ok \in BOOLEAN : VisitsGet(ok) /\ UNCHANGED <<res, edgeVars>>
    \/ \E ok \in BOOLEAN : VisitsHlen(ok) /\ UNCHANGED <<res, edgeVars>>
    \/ VisitsDone /\ UNCHANGED <<res, edgeVars>>

SnapSpec == Init /\ [][SnapNext]_vars

\* One request to /api/whoami at a time, and the process stopping, dying in
\* a write and starting again.
LifeNext ==
    \/ \E s \in Slots, c \in Clients :
          /\ up
          /\ Quiescent
          /\ NumCalls < FewCalls
          /\ Whoami(s, c)
          /\ UNCHANGED restVars
    \/ \E s \in Slots, ok \in BOOLEAN : RedisIncr(s, ok) /\ UNCHANGED restVars
    \/ \E s \in Slots, ok \in BOOLEAN : RedisHincrby(s, ok) /\ UNCHANGED restVars
    \/ \E s \in Slots, ok \in BOOLEAN : RedisGet(s, ok) /\ UNCHANGED restVars
    \/ \E s \in Slots, ok \in BOOLEAN : RedisHlen(s, ok) /\ UNCHANGED restVars
    \/ \E s \in Slots, ok \in BOOLEAN : RedisHget(s, ok) /\ UNCHANGED restVars
    \/ \E s \in Slots, readOk \in BOOLEAN : FileRead(s, readOk) /\ UNCHANGED restVars
    \/ \E s \in Slots, out \in WriteOutcomes : FileWrite(s, out) /\ UNCHANGED restVars
    \/ \E s \in Slots : Respond(s) /\ UNCHANGED restVars
    \/ up /\ OnReady /\ UNCHANGED restVars
    \/ up /\ OnError /\ UNCHANGED restVars
    \/ up /\ OnEnd /\ UNCHANGED restVars
    \/ Stop /\ UNCHANGED <<res, edgeVars>>
    \/ \E s \in Slots, out \in WriteOutcomes :
          CrashInWrite(s, out) /\ UNCHANGED <<res, edgeVars>>
    \/ \E out \in WriteOutcomes : Start(out) /\ UNCHANGED <<res, edgeVars>>

LifeSpec == Init /\ [][LifeNext]_vars

\* the document holding one visit, by client c
OneVisit(c) ==
    [kind |-> "ledger", total |-> 1, byIp |-> [d \in Clients |-> IF d = c THEN 1 ELSE 0]]
FirstResult == [total |-> 1, unique |-> 1, yourVisits |-> 1]

\* Two requests in flight over a configured Redis, with the replies to each
\* request's own INCR and HINCRBY kept beside it; visits.json starts as the
\* empty ledger.
OwnIncr(s, ok) ==
    IF ok THEN [own EXCEPT ![s].incr = Incr(rTotal)] ELSE own

OwnHincrby(s, ok) ==
    IF ok THEN [own EXCEPT ![s].hincr = HIncrBy(rByIp, ip[s])[ip[s]]] ELSE own

ownRest == <<lifeVars, res, ipVars, keyVars, connVars, link, bootVars, webVars>>

ReadNext ==
    \/ \E s \in Slots, c \in Clients :
          /\ FirstCall(c)
          /\ Whoami(s, c)
          /\ own' = [own EXCEPT ![s] = NoOwn]
          /\ UNCHANGED ownRest
    \/ \E s \in Slots, ok \in BOOLEAN :
          RedisIncr(s, ok) /\ own' = OwnIncr(s, ok) /\ UNCHANGED ownRest
    \/ \E s \in Slots, ok \in BOOLEAN :
          RedisHincrby(s, ok) /\ own' = OwnHincrby(s, ok) /\ UNCHANGED ownRest
    \/ \E s \in Slots, ok \in BOOLEAN : RedisGet(s, ok) /\ UNCHANGED restVars
    \/ \E s \in Slots, ok \in BOOLEAN : RedisHlen(s, ok) /\ UNCHANGED restVars
    \/ \E s \in Slots, ok \in BOOLEAN : RedisHget(s, ok) /\ UNCHANGED restVars
    \/ \E s \in Slots, readOk \in BOOLEAN : FileRead(s, readOk) /\ UNCHANGED restVars
    \/ \E s \in Slots, out \in WriteOutcomes : FileWrite(s, out) /\ UNCHANGED restVars
    \/ \E s \in Slots : Respond(s) /\ UNCHANGED restVars
    \/ OnReady /\ UNCHANGED restVars
    \/ OnError /\ UNCHANGED restVars
    \/ OnEnd /\ UNCHANGED restVars

ReadInit == Init /\ redis /\ file = EmptyLedger

ReadSpec == ReadInit /\ [][ReadNext]_vars

\* C11: a request that resolves with the Redis values has a total at least the
\* reply to its own INCR, a yourVisits at least the reply to its own HINCRBY,
\* and a unique of at least 1, whatever other requests did in between.
C11_ReadReflectsOwnWrite ==
    \A s \in Slots :
        (Resolved(s) /\ eff[s].store = "redis")
            => /\ own[s].incr >= 1
               /\ own[s].hincr >= 1
               /\ v[s].total >= own[s].incr
               /\ v[s].yourVisits >= own[s].hincr
               /\ v[s].unique >= 1

\* a request whose reads came after another request's writes
C11_Witness ==
    \E s \in Slots :
        /\ Resolved(s)
        /\ eff[s].store = "redis"
        /\ v[s].total > own[s].incr
        /\ v[s].yourVisits > own[s].hincr
        /\ v[s].unique = 2

\* C12: a request in which a Redis command failed adds one to the total and
\* one to its client's count in visits.json before it finishes.
C12_FallbackRecordsVisit ==
    \A s \in Slots :
        (Finished(s) /\ eff[s].fellBack /\ file0 = EmptyLedger)
            => /\ eff[s].fTotal = 1
               /\ eff[s].fMine = 1

\* C13: a request sends its INCR exactly when a client is configured and
\* redisReady is true as incrementVisits is called; otherwise it enters
\* incrementVisitsFile at once, and a request that started there never sends
\* a Redis command.
C13_StoreSelection ==
    [][\A s \in Slots :
         /\ (pc[s] = "idle" /\ pc'[s] # "idle")
               => /\ (pc'[s] = "incr") <=> (redis /\ redisReady)
                  /\ (pc'[s] = "fileRead") <=> ~(redis /\ redisReady)
                  /\ (redisCalls' # redisCalls) <=> (redis /\ redisReady)
         /\ (pc[s] \in FilePcs) => (pc'[s] \notin RedisPcs)
         /\ (pc[s] \notin RedisPcs /\ pc'[s] \in RedisPcs) => pc'[s] = "incr"
      ]_vars

\* a client is configured but not ready: one request started on the file
\* while an earlier one, started when ready, is still on Redis
C13_Witness ==
    /\ redis
    /\ ~redisReady
    /\ \E s, t \in Slots :
          /\ pc[s] = "fileRead"
          /\ ~eff[s].fellBack
          /\ pc[t] \in RedisPcs

\* C14: a request that resolves with the values of incrementVisitsFile (and
\* so answers 200 with them) has had them written to visits.json.
C14_NoUnpersisted200 ==
    \A s \in Slots :
        (Resolved(s) /\ eff[s].store = "file") => eff[s].saved

\* C17: when the writeVisits of a request fails, the request still resolves
\* with the incremented values and visits.json is what it was before.
C17_FailedWriteLeavesDocument ==
    [][\A s \in Slots :
         (up' /\ pc[s] = "fileWrite" /\ pc'[s] # "fileWrite" /\ ~eff'[s].saved)
             => /\ pc'[s] = "resolved"
                /\ v'[s] = FileResult(Bump(visits[s], ip[s]), ip[s])
                /\ file' = file
      ]_vars

\* C18: when visits.json is missing, unreadable or unparseable, readVisits
\* gives the empty ledger, the request resolves with 1, 1, 1 and, its write
\* succeeding, leaves a document holding exactly that one visit.
C18_CorruptionTreatedAsAbsent ==
    [][\A s \in Slots :
         /\ readVisits(FALSE) = EmptyLedger
         /\ (/\ up'
             /\ pc[s] = "fileRead"
             /\ pc'[s] # "fileRead"
             /\ \/ file.kind \in {"missing", "garbage"}
                \/ fileFault' # fileFault)
               => /\ pc'[s] = "fileWrite"
                  /\ visits'[s] = EmptyLedger
         /\ (/\ up'
             /\ pc[s] = "fileWrite"
             /\ pc'[s] # "fileWrite"
             /\ visits[s] = EmptyLedger)
               => /\ pc'[s] = "resolved"
                  /\ v'[s] = FirstResult
                  /\ eff'[s].saved => file' = OneVisit(ip[s])
      ]_vars

\* a process that started on the document its predecessor left truncated
\* has answered its first request and written a one-visit ledger
C18_Witness ==
    \E s \in Slots :
        /\ Resolved(s)
        /\ restarts >= 1
        /\ file0.kind = "garbage"
        /\ NumCalls = 1
        /\ eff[s].saved
        /\ v[s] = FirstResult
        /\ file = OneVisit(ip[s])

\* C15: a GET /api/visits answered 200 reports a total that is not below the
\* highest total a request to /api/whoami had been answered from the same
\* store when it started.
C15_SnapshotNotBelowReturned ==
    (snap.pc = "done" /\ snap.status = 200) => snap.total >= snap.floor

\* C16: no step of GET /api/visits changes the Redis keys or visits.json,
\* whichever store it reads and whether it answers 200 or 500.
C16_SnapshotReadOnly ==
    [][(snap' # snap)
         => /\ UNCHANGED <<rTotal, rByIp, file>>
            /\ snap'.pc = "done" => snap'.status \in {200, 500}
      ]_vars

\* a GET /api/visits that failed on Redis while both ledgers hold visits
C16_Witness ==
    /\ snap.pc = "done"
    /\ snap.store = "redis"
    /\ snap.status = 500
    /\ rTotal >= 1
    /\ Persisted(file).total >= 1

\* C19: starting the process leaves an existing visits.json as it is and
\* creates the empty ledger only when there is none; the first request after
\* a restart, served by the file with no fault, resolves with the persisted
\* total plus one and the persisted count of its client plus one.
C19_RestartResumes ==
    [][/\ (~up /\ up')
            => /\ file.kind # "missing" => file' = file
               /\ (file.kind = "missing" /\ ~fileFault') => file' = EmptyLedger
       /\ \A s \in Slots :
            (/\ up'
             /\ restarts >= 1
             /\ NumCalls = 1
             /\ file0.kind = "ledger"
             /\ ~fileFault'
             /\ pc[s] = "fileWrite"
             /\ pc'[s] = "resolved")
                => /\ v'[s].total = file0.total + 1
                   /\ v'[s].yourVisits = file0.byIp[ip[s]] + 1
                   /\ file' = Bump(file0, ip[s])
      ]_vars

\* two visits were persisted, the process started again, and its first
\* request resolved with 3
C19_Witness ==
    \E s \in Slots :
        /\ up
        /\ restarts = 1
        /\ Resolved(s)
        /\ eff[s].store = "file"
        /\ NumCalls = 1
        /\ ~fileFault
        /\ file0.kind = "ledger"
        /\ file0.total = 2
        /\ v[s].total = 3
        /\ v[s].yourVisits = file0.byIp[ip[s]] + 1

\* C20: a process that dies inside writeVisits leaves visits.json either as
\* it was or holding the whole new ledger.
C20_AtomicRewrite ==
    [][\A s \in Slots :
         (up /\ ~up' /\ pc[s] = "fileWrite")
             => file' \in {file, Bump(visits[s], ip[s])}
      ]_vars

\* ===================================================== ip of the request
\* GET /api/whoami up to `let ip`, for a request with this X-Forwarded-For
\* header and this address, under this setting of TRUST_PROXY.  The handler
\* keeps nothing from one request to the next: a run follows one request.
ResolveRequest(header, peer, trust) ==
    /\ ~req.seen
    /\ req' = [seen |-> TRUE, header |-> header, peer |-> peer, trust |-> trust]
    /\ ipOut' = ResolveIp(header, peer)
    /\ UNCHANGED <<coreVars, lifeVars, res, keyVars, connVars, link, own, bootVars, webVars>>

IpNext == \E header \in Headers, peer \in Peers, trust \in BOOLEAN :
              ResolveRequest(header, peer, trust)

\* the accounting plays no part before `let ip`: one start of the process
IpInit == Init /\ ~redis /\ file = EmptyLedger

IpSpec == IpInit /\ [][IpNext]_vars

\* C21: with TRUST_PROXY not enabled the ip of a request is the one its
\* address alone gives, whatever its X-Forwarded-For header.
C21_HeaderIgnoredWithoutTrust ==
    (req.seen /\ ~req.trust) => ipOut = ResolveIp(<<>>, req.peer)

\* the ip the claim gives for an entry or address e
C22_Canonical(e) ==
    LET x == IF Len(e) >= 1 /\ e[1] = "::ffff:" THEN SubSeq(e, 2, Len(e)) ELSE e
    IN  IF x \in {<<"::1">>, <<"[::1]">>, <<"0:0:0:0:0:0:0:1">>}
          THEN <<"127.0.0.1">>
          ELSE x

\* e is h up to its first comma, without the blanks around it
C22_FirstEntry(h, e) ==
    \E n \in 0..Len(h) :
        /\ \A i \in 1..n : h[i] # ","
        /\ n = Len(h) \/ h[n + 1] = ","
        /\ \E a \in 0..n, b \in 0..n :
              /\ a + Len(e) + b = n
              /\ \A i \in 1..a : h[i] = " "
              /\ \A i \in 1..Len(e) : h[a + i] = e[i]
              /\ \A i \in (n - b + 1)..n : h[i] = " "
              /\ e = <<>> \/ (e[1] # " " /\ e[Len(e)] # " ")

KeyRecord(k) ==
    /\ SumOver(kcalls, KeyIds) < MaxKeyCalls
    /\ LET byIp2 == SetProp(kdoc.byIp, k, PlusOne(OrZero(GetProp(kdoc.byIp, k))))
       IN  /\ kdoc' = [total |-> kdoc.total + 1, byIp |-> byIp2]
           /\ kres' = [total |-> kdoc.total + 1,
                       unique |-> Cardinality(OwnKeys(byIp2)),
                       yourVisits |-> OrZero(GetProp(byIp2, k))]
    /\ kcalls' = [kcalls EXCEPT ![k] = @ + 1]
    /\ klast' = k
    /\ UNCHANGED <<coreVars, lifeVars, res, ipVars, connVars, link, own, bootVars, webVars>>

KeyNext == \E k \in KeyIds : KeyRecord(k)

KeySpec == IpInit /\ [][KeyNext]_vars

\* keys that are not names of Object.prototype
PlainKeys == {"", "1.2.3.4"}
OnlyPlainSoFar == \A k \in KeyIds \ PlainKeys : kcalls[k] = 0

\* C23: the k-th call for the empty string returns yourVisits = k, all of
\* them under the one key "", which unique counts once.
C23_EmptyKeyCounts ==
    (klast = "" /\ kcalls[""] >= 1)
        => /\ kres.yourVisits = Num(kcalls[""])
           /\ kdoc.byIp[""] = Num(kcalls[""])
           /\ "" \in OwnKeys(kdoc.byIp)
           /\ OnlyPlainSoFar =>
                 /\ kres.unique = Cardinality({k \in PlainKeys : kcalls[k] > 0})
                 /\ kres.total = SumOver(kcalls, KeyIds)

\* the second call for "" after a call for an address
C23_Witness ==
    /\ klast = ""
    /\ kcalls[""] = 2
    /\ kcalls["1.2.3.4"] = 1
    /\ OnlyPlainSoFar
    /\ kres = [total |-> 3, unique |-> 2, yourVisits |-> Num(2)]

\* C28: the first call for any key returns the number 1 as yourVisits, adds
\* the key to those unique counts, and leaves total the sum of the counts.
C28_OpaqueKeys ==
    kcalls[klast] = 1
        => /\ kres.yourVisits = Num(1)
           /\ klast \in OwnKeys(kdoc.byIp)
           /\ \A k \in OwnKeys(kdoc.byIp) : kdoc.byIp[k].t = "number"
           /\ kdoc.total
                = SumOver([k \in KeyIds |-> kdoc.byIp[k].n], KeyIds)

\* C24: with a Redis client configured, a request answers 200 with a total
\* at least one above every total answered before it, whether redisReady
\* was true or false when each of them came.
C24_TotalGrowsAcrossReadiness ==
    \A s \in Slots :
        (/\ redis
         /\ Finished(s)
         /\ file0 = EmptyLedger
         /\ ~fileFault
         /\ ~redisFault)
            => /\ Resolved(s)
               /\ v[s].total >= Max(maxRet.file, maxRet.redis) + 1

Min(a, b) == IF a <= b THEN a ELSE b

\* retryStrategy: (times) => Math.min(50 * times, 2000)
retryStrategyUncapped(t) == 50 * t
retryStrategy(t) == Min(50 * t, 2000)

\* The connection is lost or an attempt to connect fails: the client asks
\* retryStrategy for the delay before attempt number times + 1.  A number
\* means "try again after that many ms"; the attempts are counted from the
\* last time the connection was ready.
Reconnecting ==
    /\ up
    /\ redis
    /\ times < MaxTimes
    /\ times' = times + 1
    /\ delay' = retryStrategy(times + 1)
    /\ UNCHANGED <<coreVars, lifeVars, res, ipVars, keyVars, lastEvent, link, own, bootVars, webVars>>

\* The connection events, the attempts to reconnect, and the process
\* stopping and starting again.
ConnNext ==
    \/ /\ up
       /\ OnReady
       /\ lastEvent' = "ready"
       /\ times' = 0
       /\ delay' = 0
       /\ UNCHANGED <<lifeVars, res, ipVars, keyVars, link, own, bootVars, webVars>>
    \/ /\ up
       /\ OnError
       /\ lastEvent' = "error"
       /\ UNCHANGED <<lifeVars, res, ipVars, keyVars, times, delay, link, own, bootVars, webVars>>
    \/ /\ up
       /\ OnEnd
       /\ lastEvent' = "end"
       /\ UNCHANGED <<lifeVars, res, ipVars, keyVars, times, delay, link, own, bootVars, webVars>>
    \/ Reconnecting
    \/ /\ Stop
       /\ lastEvent' = "none"
       /\ times' = 0
       /\ delay' = 0
       /\ UNCHANGED <<res, ipVars, keyVars, link, own, bootVars, webVars>>
    \/ \E out \in WriteOutcomes : Start(out) /\ UNCHANGED <<res, edgeVars>>

ConnSpec == Init /\ [][ConnNext]_vars

\* C26: redisReady is true exactly when the last event of the client was
\* 'ready'; it is false at the start of the process, after 'error' and after
\* 'end', and when no client is configured.
C26_ReadyFollowsEvents ==
    /\ redisReady => (redis /\ lastEvent = "ready")
    /\ lastEvent = "ready" => redisReady
    /\ lastEvent \in {"none", "error", "end"} => ~redisReady
    /\ ~redis => lastEvent = "none"

\* ready again in a process that was started again
C26_Witness ==
    /\ redis
    /\ restarts = 1
    /\ redisReady
    /\ lastEvent = "ready"

\* C27: the delay for attempt number times is 50 * times up to 2000 and
\* 2000 from there on: a number for every attempt, never above 2000, never
\* below the delay of an earlier attempt.
C27_ReconnectDelay ==
    times >= 1
        => /\ delay \in Nat
           /\ 50 * times <= 2000 => delay = 50 * times
           /\ 50 * times > 2000 => delay = 2000
           /\ delay <= 2000
           /\ \A t \in 1..times :
                 (IF 50 * t <= 2000 THEN 50 * t ELSE 2000) <= delay

\* the first attempt whose delay is capped
C27_Witness ==
    /\ times = 41
    /\ delay = 2000

\* ============================================ requests and a lost connection
\* maxRetriesPerRequest: null -- a command sent or queued while the
\* connection is down is kept until the connection is back; nothing gives
\* it a time limit.  Its reply, a value or an error, comes only over an
\* established connection.
LinkUp ==
    /\ redis
    /\ ~link
    /\ link' = TRUE
    /\ UNCHANGED <<coreVars, lifeVars, res, ipVars, keyVars, connVars, own, bootVars, webVars>>

LinkDown ==
    /\ redis
    /\ link
    /\ link' = FALSE
    /\ UNCHANGED <<coreVars, lifeVars, res, ipVars, keyVars, connVars, own, bootVars, webVars>>

\* the steps of a request that is being served
WhoamiStep ==
    \/ \E s \in Slots, ok \in BOOLEAN : link /\ RedisIncr(s, ok) /\ UNCHANGED restVars
    \/ \E s \in Slots, ok \in BOOLEAN : link /\ RedisHincrby(s, ok) /\ UNCHANGED restVars
    \/ \E s \in Slots, ok \in BOOLEAN : link /\ RedisGet(s, ok) /\ UNCHANGED restVars
    \/ \E s \in Slots, ok \in BOOLEAN : link /\ RedisHlen(s, ok) /\ UNCHANGED restVars
    \/ \E s \in Slots, ok \in BOOLEAN : link /\ RedisHget(s, ok) /\ UNCHANGED restVars
    \/ \E s \in Slots, readOk \in BOOLEAN : FileRead(s, readOk) /\ UNCHANGED restVars
    \/ \E s \in Slots, out \in WriteOutcomes : FileWrite(s, out) /\ UNCHANGED restVars
    \/ \E s \in Slots : Respond(s) /\ UNCHANGED restVars

\* One request to /api/whoami at a time, over a connection that is made
\* and lost; 'ready' comes over an established connection.
LiveNext ==
    \/ \E s \in Slots, c \in Clients :
          /\ Quiescent
          /\ NumCalls < FewCalls
          /\ Whoami(s, c)
          /\ UNCHANGED restVars
    \/ WhoamiStep
    \/ link /\ OnReady /\ UNCHANGED restVars
    \/ OnError /\ UNCHANGED restVars
    \/ OnEnd /\ UNCHANGED restVars
    \/ LinkUp
    \/ LinkDown

\* Node runs every task that is ready, and the file system answers: a step
\* of a request that can be taken is taken.  Nothing brings a lost
\* connection back.
LiveSpec == Init /\ [][LiveNext]_vars /\ WF_vars(WhoamiStep)

\* C29: every request to /api/whoami comes to the point where
\* incrementVisits has resolved or thrown and the response is sent.
C29_EveryCallReturns ==
    \A s \in Slots : (pc[s] # "idle") ~> Finished(s)

\* C30: with no incrementVisitsRedis call in flight and no Redis command
\* ever failed, visits:total is the sum of the fields of visits:byIp; and
\* while the first process runs, where redisCalls holds exactly the client
\* ids incremented through Redis, the hash has one field for each of them.
C30_RedisLedgerAtQuiescence ==
    (~redisFault /\ \A s \in Slots : pc[s] \notin RedisPcs)
        => /\ rTotal = SumOver(rByIp, Clients)
           /\ (up /\ restarts = 0)
                => Cardinality(Keys(rByIp)) = Cardinality(Keys(redisCalls))

\* ======================================================= startServer, shutdown
\* function startServer(startPort, maxAttempts = 10)
maxAttempts == 10

\* app.listen(port) throws a RangeError for a port above this one
MaxPort == 65535

\* Number(process.env.PORT) || PORT
StartPorts == {3000, 65530}

bootRest == <<coreVars, lifeVars, res, ipVars, keyVars, connVars, link, own,
              webVars>>

Exit(code, by) == [code |-> code, by |-> by]

\* tryListen(p): const s = app.listen(p, ...).  listen throws for a number
\* that is no port; for p + 1 this happens in the callback of setTimeout,
\* where nothing catches it, and the process ends with the exception.
tryListen(p) ==
    IF p > MaxPort
      THEN /\ exit' = Exit("1", "uncaught")
           /\ UNCHANGED <<srv, port, tried>>
      ELSE /\ srv' = "binding"
           /\ port' = p
           /\ tried' = Append(tried, p)
           /\ UNCHANGED exit

\* startServer(Number(process.env.PORT) || PORT)
StartServer(p) ==
    /\ exit = Running
    /\ srv = "none"
    /\ attempts' = 0
    /\ tryListen(p)
    /\ UNCHANGED <<handlers, timer, conns, sigs, bootRest>>

\* the callback of app.listen: the server listens, and shutdown is
\* registered for SIGTERM and SIGINT
Listening ==
    /\ exit = Running
    /\ srv = "binding"
    /\ srv' = "listening"
    /\ handlers' = handlers + 1
    /\ UNCHANGED <<port, attempts, tried, timer, conns, sigs, exit, bootRest>>

\* s.on('error', ...) with err.code === 'EADDRINUSE'
AddrInUse ==
    /\ exit = Running
    /\ srv = "binding"
    /\ attempts' = attempts + 1
    /\ IF attempts + 1 >= maxAttempts
         THEN exit' = Exit("1", "attempts") /\ UNCHANGED srv
         ELSE srv' = "waiting" /\ UNCHANGED exit
    /\ UNCHANGED <<port, tried, handlers, timer, conns, sigs, bootRest>>

\* s.on('error', ...) with any other error
OtherError ==
    /\ exit = Running
    /\ srv = "binding"
    /\ exit' = Exit("1", "error")
    /\ UNCHANGED <<srv, port, attempts, tried, handlers, timer, conns, sigs,
                   bootRest>>

\* setTimeout(() => tryListen(port + 1), 200)
Retry ==
    /\ exit = Running
    /\ srv = "waiting"
    /\ tryListen(port + 1)
    /\ UNCHANGED <<attempts, handlers, timer, conns, sigs, bootRest>>

\* a client opens a connection to the listening server
Connect ==
    /\ exit = Running
    /\ srv = "listening"
    /\ conns < MaxConns
    /\ conns' = conns + 1
    /\ UNCHANGED <<srv, port, attempts, tried, handlers, timer, sigs, exit,
                   bootRest>>

\* a connection ends
Disconnect ==
    /\ exit = Running
    /\ conns > 0
    /\ conns' = conns - 1
    /\ UNCHANGED <<srv, port, attempts, tried, handlers, timer, sigs, exit,
                   bootRest>>

\* function shutdown(): s.close(...); setTimeout(() => process.exit(1), 5000)
shutdownNoTimer ==
    /\ srv' = "closing"
    /\ UNCHANGED <<timer, exit>>

shutdown ==
    /\ srv' = "closing"
    /\ timer' = TRUE
    /\ UNCHANGED exit

\* SIGTERM or SIGINT: shutdown if it is registered, else the signal ends the
\* process
Signal ==
    /\ exit = Running
    /\ sigs < MaxSignals
    /\ sigs' = sigs + 1
    /\ IF handlers > 0
         THEN shutdown
         ELSE exit' = Exit("signal", "signal") /\ UNCHANGED <<srv, timer>>
    /\ UNCHANGED <<port, attempts, tried, handlers, conns, bootRest>>

\* the callback of s.close: the server has stopped listening and its last
\* connection has ended
Closed ==
    /\ exit = Running
    /\ srv = "closing"
    /\ conns = 0
    /\ exit' = Exit("0", "close")
    /\ UNCHANGED <<srv, port, attempts, tried, handlers, timer, conns, sigs,
                   bootRest>>

\* the callback of the 5 s timer
TimerFires ==
    /\ exit = Running
    /\ timer
    /\ exit' = Exit("1", "timer")
    /\ UNCHANGED <<srv, port, attempts, tried, handlers, timer, conns, sigs,
                   bootRest>>

BootNext ==
    \/ \E p \in StartPorts : StartServer(p)
    \/ Listening
    \/ AddrInUse
    \/ OtherError
    \/ Retry
    \/ Connect
    \/ Disconnect
    \/ Signal
    \/ Closed
    \/ TimerFires

BootSpec == IpInit /\ [][BootNext]_vars

\* Node runs the callback of a timer that is due and of a server that has
\* closed.
ShutSpec == IpInit /\ [][BootNext]_vars /\ WF_vars(Closed) /\ WF_vars(TimerFires)

Consecutive(ports) == \A i \in 1..Len(ports) : ports[i] = ports[1] + (i - 1)
ServerUp == srv \in {"listening", "closing"}

\* C31: startServer calls listen at most maxAttempts times, on consecutive
\* ports, each call but the first after an EADDRINUSE on the port before;
\* with no signal received, the process ends before listening only through
\* process.exit(1), after the maxAttempts-th EADDRINUSE or another server
\* error; and once the server listens no further listen call is made.
C31_PortRetry ==
    /\ [](/\ Len(tried) <= maxAttempts
          /\ Consecutive(tried)
          /\ Len(tried) <= attempts + 1
          /\ (sigs = 0 /\ exit # Running /\ ~ServerUp)
                => /\ exit.by \in {"attempts", "error"}
                   /\ exit.by = "attempts" => attempts = maxAttempts)
    /\ [][ServerUp => tried' = tried]_vars

\* C32: shutdown is registered only once the server listens, and once only;
\* a signal received from then on leads to the end of the process, with
\* code 0 given by the callback of s.close and otherwise with code 1 given
\* by the 5 s timer.
C32_GracefulShutdown ==
    /\ [](/\ handlers > 0 <=> ServerUp
          /\ handlers <= 1
          /\ (timer /\ exit # Running)
                => \/ exit = Exit("0", "close") /\ conns = 0
                   \/ exit = Exit("1", "timer"))
    /\ ((ServerUp /\ sigs > 0) ~> (exit.code \in {"0", "1"}))

\* C32 witness: a signal came while a connection was open, the connection
\* stayed, and the timer ended the process.
C32_Witness ==
    /\ sigs > 0
    /\ srv = "closing"
    /\ conns > 0
    /\ exit = Exit("1", "timer")

\* ================================================= frontend: tryFetchCandidates
\* The repository holds two copies of the script: part_000 and the older
\* part_001.
Copies == {"part_000", "part_001"}

Locations ==
    { [protocol |-> "http:", port |-> "3000"],
      [protocol |-> "http:", port |-> "8000"],
      [protocol |-> "https:", port |-> ""],
      [protocol |-> "file:", port |-> ""] }

\* location.protocol.startsWith('http')
IsHttp(l) == l.protocol \in {"http:", "https:"}

localBackends ==
    << "http://localhost:3000/api/whoami",
       "http://127.0.0.1:3000/api/whoami",
       "http://localhost:3002/api/whoami",
       "http://localhost:3003/api/whoami" >>

\* const preferExplicit = frontendPort && frontendPort !== '3000'
preferExplicit(l) == l.port # "" /\ l.port # "3000"

\* the list each copy builds when the script is loaded
BuildCandidates(cp, l) ==
    IF cp = "part_000"
      THEN IF IsHttp(l) /\ ~preferExplicit(l)
             THEN <<"/api/whoami">> \o localBackends
             ELSE localBackends
      ELSE IF IsHttp(l)
             THEN <<"/api/whoami">> \o localBackends
             ELSE localBackends

webRest == <<coreVars, lifeVars, res, ipVars, keyVars, connVars, link, own,
             bootVars>>

LoadPage(cp, l) ==
    /\ step = "none"
    /\ copy' = cp
    /\ loc' = l
    /\ candidates' = BuildCandidates(cp, l)
    /\ step' = "loaded"
    /\ UNCHANGED <<pos, fetched, errs, lastErr, ret, webRest>>

\* err.attempted = candidates.slice(), in part_000 only
Attempted(cp, list) ==
    IF cp = "part_000" THEN [set |-> TRUE, list |-> list] ELSE NoAttempted

\* const err = lastErr || new Error('No candidate API endpoints available')
ErrorOr(e) == IF e = Null THEN [kind |-> "Error", url |-> ""] ELSE e

\* after the for loop: throw err
Throw(e) ==
    /\ step' = "thrown"
    /\ ret' = [NoRet EXCEPT !.kind = "throw", !.err = ErrorOr(e),
                            !.attempted = Attempted(copy, candidates)]
    /\ UNCHANGED <<pos, fetched>>

\* the for loop takes the url at place n, or ends: await fetch(url, ...)
Iterate(n, e) ==
    IF n <= Len(candidates)
      THEN /\ pos' = n
           /\ step' = "fetch"
           /\ fetched' = Append(fetched, candidates[n])
           /\ UNCHANGED ret
      ELSE Throw(e)

\* tryFetchCandidates()
Call ==
    /\ step = "loaded"
    /\ lastErr' = Null
    /\ Iterate(1, Null)
    /\ UNCHANGED <<copy, loc, candidates, errs, webRest>>

\* catch (e) { lastErr = e; }
catchKeepsFirst(old, e) == IF old = Null THEN e ELSE old

catch(old, e) == e

Caught(e) ==
    /\ lastErr' = catch(lastErr, e)
    /\ errs' = Append(errs, e)
    /\ Iterate(pos + 1, catch(lastErr, e))

\* fetch settles: rejected (no answer), answered with a status that is not
\* ok, or answered ok
FetchOutcomes == {"rejected", "notOk", "ok"}

FetchSettles(out) ==
    /\ step = "fetch"
    /\ CASE out = "rejected" -> Caught([kind |-> "TypeError", url |-> candidates[pos]])
         [] out = "notOk" -> Caught([kind |-> "HTTP", url |-> candidates[pos]])
         [] out = "ok" -> /\ step' = "json"
                          /\ UNCHANGED <<pos, fetched, errs, lastErr, ret>>
    /\ UNCHANGED <<copy, loc, candidates, webRest>>

\* await r.json(); return { data: json, url }
JsonSettles(parsed) ==
    /\ step = "json"
    /\ IF parsed
         THEN /\ step' = "returned"
              /\ ret' = [NoRet EXCEPT !.kind = "return",
                                      !.url = candidates[pos],
                                      !.data = candidates[pos]]
              /\ UNCHANGED <<pos, fetched, errs, lastErr>>
         ELSE Caught([kind |-> "SyntaxError", url |-> candidates[pos]])
    /\ UNCHANGED <<copy, loc, candidates, webRest>>

WebNext ==
    \/ \E cp \in Copies, l \in Locations : LoadPage(cp, l)
    \/ Call
    \/ \E out \in FetchOutcomes : FetchSettles(out)
    \/ \E parsed \in BOOLEAN : JsonSettles(parsed)

WebSpec == IpInit /\ [][WebNext]_vars

Prefix(a, b) == Len(a) <= Len(b) /\ a = SubSeq(b, 1, Len(a))

\* candidates are fetched in list order, one at a time; a return gives the
\* data and url of the first candidate answered ok with JSON that parses,
\* every candidate before it having failed; a throw comes after every
\* candidate failed and gives the error of the last one
C33_OrderAndResult ==
    /\ Prefix(fetched, candidates)
    /\ Len(fetched) = pos
    /\ Len(errs) = (IF step \in {"fetch", "json", "returned"} THEN pos - 1 ELSE pos)
    /\ \A i \in 1..Len(errs) : errs[i].url = candidates[i]
    /\ step = "returned"
          => /\ ret.kind = "return"
             /\ ret.url = candidates[pos]
             /\ ret.data = candidates[pos]
    /\ step = "thrown"
          => /\ ret.kind = "throw"
             /\ Len(fetched) = Len(candidates)
             /\ ret.err = errs[Len(errs)]

\* C33 (as claimed): tryFetchCandidates fetches in list order, one at a
\* time, returns the first candidate that answers ok with JSON, and when
\* every candidate failed throws the last error carrying the full list of
\* attempted endpoints.
C33_TryCandidatesInOrder ==
    /\ C33_OrderAndResult
    /\ step = "thrown" => ret.attempted = [set |-> TRUE, list |-> candidates]

\* C33 (amended): as claimed, with the list of attempted endpoints on the
\* error thrown by the copy of part_000 only; the copy of part_001 throws
\* the last error as it is.
C33_TryCandidatesInOrderPerCopy ==
    /\ C33_OrderAndResult
    /\ step = "thrown"
          => ret.attempted = (IF copy = "part_000"
                                THEN [set |-> TRUE, list |-> candidates]
                                ELSE NoAttempted)

\* C33 witness: every candidate of the longer list failed, not all in the
\* same way, and the call has thrown.
C33_Witness ==
    /\ step = "thrown"
    /\ Len(errs) = 5
    /\ errs[1].kind # errs[5].kind

====
